---- MODULE Spec2Model ----
(***************************************************************************)
(* The planner bridge of router-bridge: the module-level session           *)
(* (COMPOSED_SCHEMA, SCHEMA, PLANNER), the functions create, plan2 and     *)
(* plan, and the two scripts planner_create and planner_plan that the host *)
(* runs with its inputs bound to globals and a completion callback `done`. *)
(***************************************************************************)
EXTENDS Integers, Sequences, FiniteSets, TLC

VARIABLES
    COMPOSED_SCHEMA,  \* the compiled schema; the schema string it was built from, or UNSET
    SCHEMA,           \* the GraphQL-JS API schema; the schema string it derives from, or UNSET
    PLANNER,          \* the QueryPlanner; the schema string it was built for, or UNSET
    pc,               \* position of the host / running script
    kind,             \* which script the current invocation runs
    schemaString,     \* global binding read by planner_create
    queryString,      \* global binding read by planner_plan
    operationName,    \* global binding read by planner_plan
    pending,          \* the envelope the try block is about to hand to done
    caught,           \* the value bound to e in the script's catch clause
    doneCalls,        \* envelopes handed to done in this invocation, in order
    doneOutcomes,     \* what the host callback did on each of those calls
    propagated,       \* the failure that left the script uncaught, or NoExc
    calls,            \* library calls of this invocation: [fn, on], in order
    returned,         \* the value create / plan2 returned to the script
    before,           \* the session as it was when the invocation started
    lastCreate,       \* the most recent Create invocation: [schema, ok]
    okCreates,        \* schema strings of the last two successful creates
    oneShot,          \* arguments, result and calls of the last one-shot plan
    foreignPlanThrows, \* what buildQueryPlan does with an operation of another schema
    previous,         \* first envelope of the Plan invocation this one repeats
    peer              \* a second runtime instance: its session and its last invocation

session == <<COMPOSED_SCHEMA, SCHEMA, PLANNER>>

vars == <<COMPOSED_SCHEMA, SCHEMA, PLANNER, pc, kind, schemaString, queryString,
          operationName, pending, caught, doneCalls, doneOutcomes, propagated, calls,
          returned, before, lastCreate, okCreates, oneShot, foreignPlanThrows,
          previous, peer>>

----------------------------------------------------------------------------
(* Inputs the host can bind. *)

\* schema documents: two that compile, and one failing at each step of create
SchemaStrings ==
    {"S1", "S2", "Snocompile", "Snoapi", "Snojs", "Snoplanner"}

\* query documents
QueryStrings == {"Qsyntax", "Qinvalid", "QonlyS1", "Qone", "QAB", "Qhard"}

NoName == "<undefined>"
OperationNames == {NoName, "A", "B", "Z"}

UNSET == "<unset>"
None == "<none>"

----------------------------------------------------------------------------
(* JavaScript values crossing the boundary. *)

Null == [t |-> "null"]
Undefined == [t |-> "undefined"]
NoExc == [t |-> "none"]

Failure(k, about) == [t |-> "error", kind |-> k, about |-> about]

QueryPlanValue(planner, composed, q, op) ==
    [t |-> "plan", planner |-> planner, schema |-> composed, query |-> q, op |-> op]

\* an object literal { Ok: v }
OkEnvelope(v) == [arms |-> {"Ok"}, Ok |-> v, Err |-> <<>>]
\* an object literal { Err: es }
ErrEnvelope(es) == [arms |-> {"Err"}, Ok |-> Undefined, Err |-> es]

NoEnvelope == [arms |-> {}, Ok |-> Undefined, Err |-> <<>>]

\* ExecutionResult<QueryPlan>: { errors: ... } or { data: ... }
ErrorsResult(es) == [hasErrors |-> TRUE, errors |-> es, data |-> Undefined]
DataResult(d) == [hasErrors |-> FALSE, errors |-> <<>>, data |-> d]
NoResult == [hasErrors |-> FALSE, errors |-> <<>>, data |-> NoExc]

Call(fn, on) == [fn |-> fn, on |-> on]

----------------------------------------------------------------------------
(* The libraries the bridge calls, as deterministic functions of their     *)
(* arguments.                                                              *)

\* the step of schema processing at which a schema document is rejected
SchemaFault(s) ==
    CASE s = "Snocompile" -> "buildSchema"
      [] s = "Snoapi"     -> "toAPISchema"
      [] s = "Snojs"      -> "toGraphQLJSSchema"
      [] s = "Snoplanner" -> "QueryPlanner"
      [] OTHER            -> "none"

\* parse(operationString) throws a syntax error
ParseThrows(q) == q = "Qsyntax"

\* validate(schema, document): the list of validation errors
ValidationErrors(s, q) ==
    CASE q = "Qinvalid" -> << Failure("ValidationError1", q), Failure("ValidationError2", q) >>
      [] q = "QonlyS1" /\ s # "S1" -> << Failure("ValidationError1", q) >>
      [] OTHER -> << >>

\* validate(undefined, document) throws: the schema is asserted first
ValidateThrows(s) == s = UNSET

\* the names of the operations a document defines (NoName: anonymous)
OperationsOf(q) == IF q = "QAB" THEN {"A", "B"} ELSE {NoName}

\* operationFromDocument(schema, document, operationName) throws
ResolveThrows(s, q, name) ==
    \/ s = UNSET
    \/ ValidationErrors(s, q) # << >>
    \/ IF name = NoName THEN Cardinality(OperationsOf(q)) > 1
                        ELSE name \notin OperationsOf(q)

ResolvedOperation(q, name) ==
    IF name = NoName THEN CHOOSE o \in OperationsOf(q) : TRUE ELSE name

ResolveFailureKind(s, q, name) ==
    CASE s = UNSET -> "TypeError"
      [] ValidationErrors(s, q) # << >> -> "UnknownField"
      [] name = NoName -> "AmbiguousOperation"
      [] OTHER -> "UnknownOperation"

\* planner.buildQueryPlan(operation) throws; foreign: the planner was built
\* for another schema than the one the operation was resolved against
BuildQueryPlanThrows(planner, composed, q, foreign) ==
    \/ planner = UNSET
    \/ q = "Qhard"
    \/ planner # composed /\ foreign

----------------------------------------------------------------------------
(* The bridge functions. The session is passed and returned explicitly so  *)
(* that every assignment to the module-level variables is visible.         *)

Session(c, s, p) == [COMPOSED_SCHEMA |-> c, SCHEMA |-> s, PLANNER |-> p]

SessionUnset == Session(UNSET, UNSET, UNSET)

\* the library calls create makes, up to the one that throws
CreateCalls(s) ==
    LET fault == SchemaFault(s)
        all == << Call("buildSchema", s), Call("toAPISchema", s),
                  Call("toGraphQLJSSchema", s), Call("QueryPlanner", s) >>
    IN  CASE fault = "buildSchema" -> SubSeq(all, 1, 1)
          [] fault = "toAPISchema" -> SubSeq(all, 1, 2)
          [] fault = "toGraphQLJSSchema" -> SubSeq(all, 1, 3)
          [] OTHER -> all

\* the failure that leaves create, or NoExc when it returns
CreateThrown(s) ==
    CASE SchemaFault(s) = "buildSchema" -> Failure("SchemaError", s)
      [] SchemaFault(s) = "toAPISchema" -> Failure("ApiSchemaError", s)
      [] SchemaFault(s) = "toGraphQLJSSchema" -> Failure("GraphQLJSSchemaError", s)
      [] SchemaFault(s) = "QueryPlanner" -> Failure("PlannerError", s)
      [] OTHER -> NoExc

\* a create that builds the planner only when there is none yet:
\* PLANNER = PLANNER || new QueryPlanner(COMPOSED_SCHEMA)
CreateKeepsPlanner(sess, s) ==
    LET fault == SchemaFault(s)
        kept == IF sess.PLANNER = UNSET THEN s ELSE sess.PLANNER
    IN  [sess |-> CASE fault = "buildSchema" -> sess
                    [] fault \in {"toAPISchema", "toGraphQLJSSchema"} ->
                           [sess EXCEPT !.COMPOSED_SCHEMA = s]
                    [] fault = "QueryPlanner" ->
                           [sess EXCEPT !.COMPOSED_SCHEMA = s, !.SCHEMA = s]
                    [] OTHER -> Session(s, s, kept),
         thrown |-> CreateThrown(s),
         calls |-> CreateCalls(s)]

\* a create that derives the API schema only when there is none yet:
\* SCHEMA = SCHEMA || apiSchema.toGraphQLJSSchema()
CreateKeepsApiSchema(sess, s) ==
    LET fault == SchemaFault(s)
        kept == IF sess.SCHEMA = UNSET THEN s ELSE sess.SCHEMA
    IN  [sess |-> CASE fault = "buildSchema" -> sess
                    [] fault \in {"toAPISchema", "toGraphQLJSSchema"} ->
                           [sess EXCEPT !.COMPOSED_SCHEMA = s]
                    [] fault = "QueryPlanner" ->
                           [sess EXCEPT !.COMPOSED_SCHEMA = s, !.SCHEMA = kept]
                    [] OTHER -> Session(s, kept, s),
         thrown |-> CreateThrown(s),
         calls |-> CreateCalls(s)]

\* a create that clears the session before it compiles:
\* SCHEMA = COMPOSED_SCHEMA = PLANNER = undefined; then the four statements
CreateResetsFirst(sess, s) ==
    LET fault == SchemaFault(s)
    IN  [sess |-> CASE fault = "buildSchema" -> SessionUnset
                    [] fault \in {"toAPISchema", "toGraphQLJSSchema"} ->
                           Session(s, UNSET, UNSET)
                    [] fault = "QueryPlanner" -> Session(s, s, UNSET)
                    [] OTHER -> Session(s, s, s),
         thrown |-> CreateThrown(s),
         calls |-> CreateCalls(s)]

\* create(schemaString): four statements, each assigning as soon as its
\* right-hand side has been evaluated; a throw leaves the later ones undone
create(sess, s) ==
    LET fault == SchemaFault(s)
    IN  [sess |-> CASE fault = "buildSchema" -> sess
                    [] fault \in {"toAPISchema", "toGraphQLJSSchema"} ->
                           [sess EXCEPT !.COMPOSED_SCHEMA = s]
                    [] fault = "QueryPlanner" ->
                           [sess EXCEPT !.COMPOSED_SCHEMA = s, !.SCHEMA = s]
                    [] OTHER -> Session(s, s, s),
         thrown |-> CreateThrown(s),
         calls |-> CreateCalls(s)]

\* if (validationErrors.length >= 0)
ValidationFailedAlways(errs) == Len(errs) >= 0

\* if (validationErrors.length > 1)
ValidationFailedMany(errs) == Len(errs) > 1

\* if (validationErrors.length > 0)
ValidationFailed(errs) == Len(errs) > 0

\* a plan2 that resolves the operation before it validates the document
Plan2RunResolvesFirst(sess, q, name, foreign) ==
    LET c1 == Call("parse", q)
        c2 == Call("operationFromDocument", sess.COMPOSED_SCHEMA)
        c3 == Call("validate", sess.SCHEMA)
        c4 == Call("buildQueryPlan", sess.PLANNER)
        errs == ValidationErrors(sess.SCHEMA, q)
        Thrown(k, about, cs) == [result |-> ErrorsResult(<< Failure(k, about) >>),
                                 calls |-> cs]
    IN  IF ParseThrows(q) THEN Thrown("SyntaxError", q, << c1 >>)
        ELSE IF ResolveThrows(sess.COMPOSED_SCHEMA, q, name) THEN
            Thrown(ResolveFailureKind(sess.COMPOSED_SCHEMA, q, name), q, << c1, c2 >>)
        ELSE IF ValidateThrows(sess.SCHEMA) THEN
            Thrown("TypeError", "validate", << c1, c2, c3 >>)
        ELSE IF ValidationFailed(errs) THEN
            [result |-> ErrorsResult(errs), calls |-> << c1, c2, c3 >>]
        ELSE IF BuildQueryPlanThrows(sess.PLANNER, sess.COMPOSED_SCHEMA, q, foreign) THEN
            Thrown(IF sess.PLANNER = UNSET THEN "TypeError" ELSE "PlanningError",
                   "buildQueryPlan", << c1, c2, c3, c4 >>)
        ELSE
            [result |-> DataResult(QueryPlanValue(sess.PLANNER, sess.COMPOSED_SCHEMA,
                                                  q, ResolvedOperation(q, name))),
             calls |-> << c1, c2, c3, c4 >>]

\* plan2(operationString, operationName), the try block and its catch: the
\* value returned and the library calls made on the way
Plan2Run(sess, q, name, foreign) ==
    LET c1 == Call("parse", q)
        c2 == Call("validate", sess.SCHEMA)
        c3 == Call("operationFromDocument", sess.COMPOSED_SCHEMA)
        c4 == Call("buildQueryPlan", sess.PLANNER)
        errs == ValidationErrors(sess.SCHEMA, q)
    IN  IF ParseThrows(q) THEN
            [result |-> ErrorsResult(<< Failure("SyntaxError", q) >>),
             calls |-> << c1 >>]
        ELSE IF ValidateThrows(sess.SCHEMA) THEN
            [result |-> ErrorsResult(<< Failure("TypeError", "validate") >>),
             calls |-> << c1, c2 >>]
        ELSE IF ValidationFailed(errs) THEN
            [result |-> ErrorsResult(errs),
             calls |-> << c1, c2 >>]
        ELSE IF ResolveThrows(sess.COMPOSED_SCHEMA, q, name) THEN
            [result |-> ErrorsResult(
                 << Failure(ResolveFailureKind(sess.COMPOSED_SCHEMA, q, name), q) >>),
             calls |-> << c1, c2, c3 >>]
        ELSE IF BuildQueryPlanThrows(sess.PLANNER, sess.COMPOSED_SCHEMA, q, foreign) THEN
            [result |-> ErrorsResult(
                 << Failure(IF sess.PLANNER = UNSET THEN "TypeError" ELSE "PlanningError",
                            "buildQueryPlan") >>),
             calls |-> << c1, c2, c3, c4 >>]
        ELSE
            [result |-> DataResult(QueryPlanValue(sess.PLANNER, sess.COMPOSED_SCHEMA,
                                                  q, ResolvedOperation(q, name))),
             calls |-> << c1, c2, c3, c4 >>]

\* a plan2 that rebuilds the planner from the compiled schema on each call:
\* PLANNER = new QueryPlanner(COMPOSED_SCHEMA)
Plan2RebuildsPlanner(sess, q, name, foreign) ==
    [result |-> Plan2Run(sess, q, name, foreign).result,
     calls |-> Plan2Run(sess, q, name, foreign).calls,
     sess |-> [sess EXCEPT !.PLANNER = sess.COMPOSED_SCHEMA]]

\* a plan2 that gives its planner up once it has used it: PLANNER = undefined
Plan2DropsPlanner(sess, q, name, foreign) ==
    [result |-> Plan2Run(sess, q, name, foreign).result,
     calls |-> Plan2Run(sess, q, name, foreign).calls,
     sess |-> [sess EXCEPT !.PLANNER = UNSET]]

\* a plan2 that builds the plan and returns an object without it:
\* PLANNER.buildQueryPlan(operation); return {}
Plan2ReturnsNoData(sess, q, name, foreign) ==
    [result |-> IF Plan2Run(sess, q, name, foreign).result.hasErrors
                THEN Plan2Run(sess, q, name, foreign).result
                ELSE DataResult(Undefined),
     calls |-> Plan2Run(sess, q, name, foreign).calls,
     sess |-> sess]

\* a plan2 that leaves its second argument out of the call:
\* operationFromDocument(COMPOSED_SCHEMA, operationDocument)
Plan2IgnoresName(sess, q, name, foreign) ==
    [result |-> Plan2Run(sess, q, NoName, foreign).result,
     calls |-> Plan2Run(sess, q, NoName, foreign).calls,
     sess |-> sess]

\* plan2 as the script sees it: no statement of plan2 assigns to
\* COMPOSED_SCHEMA, SCHEMA or PLANNER, so the session it leaves is the one
\* it found
plan2(sess, q, name, foreign) ==
    [result |-> Plan2Run(sess, q, name, foreign).result,
     calls |-> Plan2Run(sess, q, name, foreign).calls,
     sess |-> sess]

\* plan(schemaString, operationString, operationName): the one-shot form,
\* every intermediate value a local
plan(s, q, name) ==
    LET fault == SchemaFault(s)
        b1 == Call("buildSchema", s)
        b2 == Call("toAPISchema", s)
        b3 == Call("parse", q)
        b4 == Call("toGraphQLJSSchema", s)
        b5 == Call("validate", s)
        b6 == Call("operationFromDocument", s)
        b7 == Call("QueryPlanner", s)
        b8 == Call("buildQueryPlan", s)
        errs == ValidationErrors(s, q)
    IN  IF fault = "buildSchema" THEN
            [result |-> ErrorsResult(<< Failure("SchemaError", s) >>),
             calls |-> << b1 >>]
        ELSE IF fault = "toAPISchema" THEN
            [result |-> ErrorsResult(<< Failure("ApiSchemaError", s) >>),
             calls |-> << b1, b2 >>]
        ELSE IF ParseThrows(q) THEN
            [result |-> ErrorsResult(<< Failure("SyntaxError", q) >>),
             calls |-> << b1, b2, b3 >>]
        ELSE IF fault = "toGraphQLJSSchema" THEN
            [result |-> ErrorsResult(<< Failure("GraphQLJSSchemaError", s) >>),
             calls |-> << b1, b2, b3, b4 >>]
        ELSE IF ValidationFailed(errs) THEN
            [result |-> ErrorsResult(errs),
             calls |-> << b1, b2, b3, b4, b5 >>]
        ELSE IF ResolveThrows(s, q, name) THEN
            [result |-> ErrorsResult(<< Failure(ResolveFailureKind(s, q, name), q) >>),
             calls |-> << b1, b2, b3, b4, b5, b6 >>]
        ELSE IF fault = "QueryPlanner" THEN
            [result |-> ErrorsResult(<< Failure("PlannerError", s) >>),
             calls |-> << b1, b2, b3, b4, b5, b6, b7 >>]
        ELSE IF BuildQueryPlanThrows(s, s, q, FALSE) THEN
            [result |-> ErrorsResult(<< Failure("PlanningError", "buildQueryPlan") >>),
             calls |-> << b1, b2, b3, b4, b5, b6, b7, b8 >>]
        ELSE
            [result |-> DataResult(QueryPlanValue(s, s, q, ResolvedOperation(q, name))),
             calls |-> << b1, b2, b3, b4, b5, b6, b7, b8 >>]

----------------------------------------------------------------------------
(* The script bodies. *)

\* planner_create, try block: done({ Ok: null })
CreateScriptEnvelope == OkEnvelope(Null)

\* a planner_plan that reports the first error only:
\* done({ Err: [planResult.errors[0]] })
PlanScriptFirstError(planResult) ==
    IF planResult.hasErrors /\ Len(planResult.errors) > 0
    THEN ErrEnvelope(<< planResult.errors[1] >>)
    ELSE OkEnvelope(planResult.data)

\* planner_plan, try block: planResult.errors?.length > 0 selects the arm
PlanScriptEnvelope(planResult) ==
    IF planResult.hasErrors /\ Len(planResult.errors) > 0
    THEN ErrEnvelope(planResult.errors)
    ELSE OkEnvelope(planResult.data)

\* catch (e) { done({ Err: [e.message] }) }: the failure replaced by its text
CatchEnvelopeMessage(e) == ErrEnvelope(<< Failure("Message", e.kind) >>)

\* catch (e) { done({ Err: [e] }) }, the same in both scripts
CatchEnvelope(e) == ErrEnvelope(<< e >>)

\* what the host callback does with an envelope: take it and return, take
\* it and throw, or throw without having taken it
DoneOutcomes == {"returns", "throws_after", "throws_before"}

DoneFailure == Failure("DoneError", "done")


----------------------------------------------------------------------------
(* The state machine: the host binds inputs and runs one script at a time; *)
(* a script runs to completion before the host issues the next invocation. *)

Current == Session(COMPOSED_SCHEMA, SCHEMA, PLANNER)

NoCreate == [schema |-> None, ok |-> FALSE]
NoOneShot == [schema |-> None, query |-> None, name |-> None,
              result |-> NoResult, calls |-> << >>]

\* the second instance has run nothing yet
NoPeerCall == [kind |-> None]

Init ==
    /\ COMPOSED_SCHEMA = UNSET
    /\ SCHEMA = UNSET
    /\ PLANNER = UNSET
    /\ pc = "idle"
    /\ kind = None
    /\ schemaString = None
    /\ queryString = None
    /\ operationName = None
    /\ pending = NoEnvelope
    /\ caught = NoExc
    /\ doneCalls = << >>
    /\ doneOutcomes = << >>
    /\ propagated = NoExc
    /\ calls = << >>
    /\ returned = NoResult
    /\ before = SessionUnset
    /\ lastCreate = NoCreate
    /\ okCreates = << >>
    /\ oneShot = NoOneShot
    /\ foreignPlanThrows \in BOOLEAN
    /\ previous = NoEnvelope
    /\ peer = [sess |-> SessionUnset, last |-> NoPeerCall]

\* a fresh invocation: nothing delivered, nothing caught, nothing called yet
StartInvocation(k, next) ==
    /\ pc = "idle"
    /\ pc' = next
    /\ kind' = k
    /\ pending' = NoEnvelope
    /\ caught' = NoExc
    /\ doneCalls' = << >>
    /\ doneOutcomes' = << >>
    /\ propagated' = NoExc
    /\ calls' = << >>
    /\ returned' = NoResult
    /\ before' = Current
    /\ oneShot' = NoOneShot
    /\ previous' = NoEnvelope
    /\ UNCHANGED << COMPOSED_SCHEMA, SCHEMA, PLANNER, lastCreate, okCreates,
                    foreignPlanThrows, peer >>

\* the host binds schemaString and runs planner_create
HostInvokeCreate(s) ==
    /\ StartInvocation("create", "create_try")
    /\ schemaString' = s
    /\ queryString' = None
    /\ operationName' = None

\* the host binds queryString and operationName and runs planner_plan
HostInvokePlan(q, name) ==
    /\ StartInvocation("plan", "plan_try")
    /\ schemaString' = None
    /\ queryString' = q
    /\ operationName' = name

\* the host binds all three and calls the one-shot plan
HostInvokeOneShot(s, q, name) ==
    /\ StartInvocation("oneshot", "oneshot_call")
    /\ schemaString' = s
    /\ queryString' = q
    /\ operationName' = name

\* the host runs planner_plan again with the bindings it has just used
HostRepeatPlan ==
    /\ pc = "finished"
    /\ kind = "plan"
    /\ Len(doneCalls) >= 1
    /\ pc' = "plan_try"
    /\ previous' = doneCalls[1]
    /\ pending' = NoEnvelope
    /\ caught' = NoExc
    /\ doneCalls' = << >>
    /\ doneOutcomes' = << >>
    /\ propagated' = NoExc
    /\ calls' = << >>
    /\ returned' = NoResult
    /\ before' = Current
    /\ UNCHANGED << COMPOSED_SCHEMA, SCHEMA, PLANNER, kind, schemaString,
                    queryString, operationName, lastCreate, okCreates, oneShot,
                    foreignPlanThrows, peer >>

RememberOk(s) == IF okCreates = << >> THEN << s >> ELSE << okCreates[Len(okCreates)], s >>

\* planner_create: bridge.create(schemaString) inside the try block
CreateTry ==
    /\ pc = "create_try"
    /\ LET r == create(Current, schemaString)
       IN  /\ COMPOSED_SCHEMA' = r.sess.COMPOSED_SCHEMA
           /\ SCHEMA' = r.sess.SCHEMA
           /\ PLANNER' = r.sess.PLANNER
           /\ calls' = r.calls
           /\ lastCreate' = [schema |-> schemaString, ok |-> r.thrown = NoExc]
           /\ IF r.thrown = NoExc
              THEN /\ pending' = CreateScriptEnvelope
                   /\ caught' = caught
                   /\ okCreates' = RememberOk(schemaString)
                   /\ pc' = "done_try"
              ELSE /\ pending' = pending
                   /\ caught' = r.thrown
                   /\ okCreates' = okCreates
                   /\ pc' = "catch"
    /\ UNCHANGED << kind, schemaString, queryString, operationName, doneCalls,
                    doneOutcomes, propagated, returned, before, oneShot,
                    foreignPlanThrows, previous, peer >>

\* planner_plan: bridge.plan2(queryString, operationName) and the choice
\* of the envelope, inside the try block
PlanTry ==
    /\ pc = "plan_try"
    /\ LET r == plan2(Current, queryString, operationName, foreignPlanThrows)
       IN  /\ COMPOSED_SCHEMA' = r.sess.COMPOSED_SCHEMA
           /\ SCHEMA' = r.sess.SCHEMA
           /\ PLANNER' = r.sess.PLANNER
           /\ calls' = r.calls
           /\ returned' = r.result
           /\ pending' = PlanScriptEnvelope(r.result)
    /\ pc' = "done_try"
    /\ UNCHANGED << kind, schemaString, queryString, operationName, caught,
                    doneCalls, doneOutcomes, propagated, before, lastCreate,
                    okCreates, oneShot, foreignPlanThrows, previous, peer >>

\* done(...) as the last statement of the try block
DoneInTry(outcome) ==
    /\ pc = "done_try"
    /\ doneCalls' = Append(doneCalls, pending)
    /\ doneOutcomes' = Append(doneOutcomes, outcome)
    /\ IF outcome = "returns"
       THEN pc' = "finished" /\ caught' = caught
       ELSE pc' = "catch" /\ caught' = DoneFailure
    /\ UNCHANGED << COMPOSED_SCHEMA, SCHEMA, PLANNER, kind, schemaString,
                    queryString, operationName, pending, propagated, calls,
                    returned, before, lastCreate, okCreates, oneShot,
                    foreignPlanThrows, previous, peer >>

\* a script without its catch clause: the failure leaves the script
NoCatchClause(outcome) ==
    /\ pc = "catch"
    /\ propagated' = caught
    /\ pc' = "finished"
    /\ UNCHANGED << COMPOSED_SCHEMA, SCHEMA, PLANNER, kind, schemaString,
                    queryString, operationName, pending, caught, doneCalls,
                    doneOutcomes, calls, returned, before, lastCreate,
                    okCreates, oneShot, foreignPlanThrows, previous, peer >>

\* catch (e) { done({ Err: [e] }) }; a throw from here leaves the script
DoneInCatch(outcome) ==
    /\ pc = "catch"
    /\ doneCalls' = Append(doneCalls, CatchEnvelope(caught))
    /\ doneOutcomes' = Append(doneOutcomes, outcome)
    /\ propagated' = IF outcome = "returns" THEN NoExc ELSE DoneFailure
    /\ pc' = "finished"
    /\ UNCHANGED << COMPOSED_SCHEMA, SCHEMA, PLANNER, kind, schemaString,
                    queryString, operationName, pending, caught, calls,
                    returned, before, lastCreate, okCreates, oneShot,
                    foreignPlanThrows, previous, peer >>

\* a one-shot plan written as create(schemaString) followed by plan2: the
\* schema it compiles lands in the module-level variables
OneShotThroughCreate ==
    /\ pc = "oneshot_call"
    /\ LET r == plan(schemaString, queryString, operationName)
           c == create(Current, schemaString)
       IN  /\ oneShot' = [schema |-> schemaString, query |-> queryString,
                          name |-> operationName, result |-> r.result,
                          calls |-> r.calls]
           /\ calls' = r.calls
           /\ returned' = r.result
           /\ COMPOSED_SCHEMA' = c.sess.COMPOSED_SCHEMA
           /\ SCHEMA' = c.sess.SCHEMA
           /\ PLANNER' = c.sess.PLANNER
    /\ pc' = "finished"
    /\ UNCHANGED << kind, schemaString, queryString, operationName, pending,
                    caught, doneCalls, doneOutcomes, propagated, before,
                    lastCreate, okCreates, foreignPlanThrows, previous, peer >>

\* plan(schemaString, operationString, operationName) returns to its caller
OneShotCall ==
    /\ pc = "oneshot_call"
    /\ LET r == plan(schemaString, queryString, operationName)
       IN  /\ oneShot' = [schema |-> schemaString, query |-> queryString,
                          name |-> operationName, result |-> r.result,
                          calls |-> r.calls]
           /\ calls' = r.calls
           /\ returned' = r.result
    /\ pc' = "finished"
    /\ UNCHANGED << COMPOSED_SCHEMA, SCHEMA, PLANNER, kind, schemaString,
                    queryString, operationName, pending, caught, doneCalls,
                    doneOutcomes, propagated, before, lastCreate, okCreates,
                    foreignPlanThrows, previous, peer >>

\* the host has the outcome and is free to issue the next invocation
HostResume ==
    /\ pc = "finished"
    /\ pc' = "idle"
    /\ kind' = None
    /\ schemaString' = None
    /\ queryString' = None
    /\ operationName' = None
    /\ pending' = NoEnvelope
    /\ caught' = NoExc
    /\ doneCalls' = << >>
    /\ doneOutcomes' = << >>
    /\ propagated' = NoExc
    /\ calls' = << >>
    /\ returned' = NoResult
    /\ before' = Current
    /\ oneShot' = NoOneShot
    /\ previous' = NoEnvelope
    /\ UNCHANGED << COMPOSED_SCHEMA, SCHEMA, PLANNER, lastCreate, okCreates,
                    foreignPlanThrows, peer >>

Next ==
    \/ \E s \in SchemaStrings : HostInvokeCreate(s)
    \/ \E q \in QueryStrings, name \in OperationNames : HostInvokePlan(q, name)
    \/ \E s \in SchemaStrings, q \in QueryStrings, name \in OperationNames :
           HostInvokeOneShot(s, q, name)
    \/ HostRepeatPlan
    \/ CreateTry
    \/ PlanTry
    \/ \E outcome \in DoneOutcomes : DoneInTry(outcome)
    \/ \E outcome \in DoneOutcomes : DoneInCatch(outcome)
    \/ OneShotCall
    \/ HostResume

Spec == Init /\ [][Next]_vars

----------------------------------------------------------------------------
(* Two runtime instances. Each instance evaluates the bridge module once,  *)
(* so each has its own SCHEMA, COMPOSED_SCHEMA and PLANNER; an invocation  *)
(* runs to completion inside its instance, so the second instance's        *)
(* invocations are single steps between the steps of the first.            *)

InstanceSchemas == {"S1", "S2", "Snoplanner"}
InstanceQueries == {"Qone", "QonlyS1"}

thisInstance ==
    << COMPOSED_SCHEMA, SCHEMA, PLANNER, pc, kind, schemaString, queryString,
       operationName, pending, caught, doneCalls, doneOutcomes, propagated,
       calls, returned, before, lastCreate, okCreates, oneShot,
       foreignPlanThrows, previous >>

\* one set of globals for every instance: the second instance's create
\* assigns the variables the first instance reads
PeerCreateShared(s) ==
    LET c == create(Current, s)
    IN  /\ COMPOSED_SCHEMA' = c.sess.COMPOSED_SCHEMA
        /\ SCHEMA' = c.sess.SCHEMA
        /\ PLANNER' = c.sess.PLANNER
        /\ peer' = [peer EXCEPT !.last = [kind |-> "create", schemaString |-> s,
                                          thrown |-> c.thrown]]
        /\ UNCHANGED << pc, kind, schemaString, queryString, operationName,
                        pending, caught, doneCalls, doneOutcomes, propagated,
                        calls, returned, before, lastCreate, okCreates, oneShot,
                        foreignPlanThrows, previous >>

\* planner_create on the second instance: create assigns that instance's globals
PeerCreate(s) ==
    LET c == create(peer.sess, s)
    IN  /\ peer' = [sess |-> c.sess,
                    last |-> [kind |-> "create", schemaString |-> s,
                              thrown |-> c.thrown]]
        /\ UNCHANGED thisInstance

\* planner_plan on the second instance: plan2 reads that instance's globals
PeerPlan(q, name) ==
    LET r == plan2(peer.sess, q, name, foreignPlanThrows)
    IN  /\ peer' = [sess |-> r.sess,
                    last |-> [kind |-> "plan", queryString |-> q,
                              operationName |-> name, returned |-> r.result]]
        /\ UNCHANGED thisInstance

NextInstances ==
    \/ \E s \in InstanceSchemas : HostInvokeCreate(s)
    \/ \E q \in InstanceQueries : HostInvokePlan(q, NoName)
    \/ CreateTry
    \/ PlanTry
    \/ DoneInTry("returns")
    \/ DoneInCatch("returns")
    \/ HostResume
    \/ \E s \in InstanceSchemas : PeerCreate(s)
    \/ \E q \in InstanceQueries : PeerPlan(q, NoName)

SpecInstances == Init /\ [][NextInstances]_vars

----------------------------------------------------------------------------
(* Vocabulary of the properties. *)

ScriptKinds == {"create", "plan"}

\* the script of the current invocation has run to its end
ScriptFinished == pc = "finished" /\ kind \in ScriptKinds

\* some call of done in this invocation threw
DoneThrew == \E i \in 1..Len(doneOutcomes) : doneOutcomes[i] # "returns"

\* the envelopes the host callback took
Received ==
    LET Took(i) == doneOutcomes[i] # "throws_before"
        F[i \in 0..Len(doneCalls)] ==
            IF i = 0 THEN << >>
            ELSE IF Took(i) THEN Append(F[i - 1], doneCalls[i]) ELSE F[i - 1]
    IN  F[Len(doneCalls)]

\* an arm is populated when the property is there and holds a value the
\* serialization keeps
OkPopulated(env) == "Ok" \in env.arms /\ env.Ok # Undefined
ErrPopulated(env) == "Err" \in env.arms

WellFormed(env) ==
    /\ OkPopulated(env) # ErrPopulated(env)
    /\ ErrPopulated(env) => Len(env.Err) >= 1

WellFormedErr(env) == WellFormed(env) /\ ErrPopulated(env)

IsOk(env) == OkPopulated(env) /\ ~ErrPopulated(env)

CalledAny(fns) == \E i \in 1..Len(calls) : calls[i].fn \in fns

\* the schema document is rejected at some step of create
Malformed(s) == SchemaFault(s) # "none"

\* plan2 on session sess throws inside its try block for (q, name)
Plan2StageThrows(sess, q, name) ==
    \/ ParseThrows(q)
    \/ ValidateThrows(sess.SCHEMA)
    \/ /\ ValidationErrors(sess.SCHEMA, q) = << >>
       /\ \/ ResolveThrows(sess.COMPOSED_SCHEMA, q, name)
          \/ BuildQueryPlanThrows(sess.PLANNER, sess.COMPOSED_SCHEMA, q,
                                  foreignPlanThrows)

\* validate ran on a set schema and found at least one violation
Plan2ValidationFails(sess, q) ==
    /\ ~ParseThrows(q)
    /\ ~ValidateThrows(sess.SCHEMA)
    /\ ValidationErrors(sess.SCHEMA, q) # << >>

----------------------------------------------------------------------------
(* C1: every invocation of the Create or the Plan script hands exactly one *)
(* envelope to done, and the host takes exactly one, on every path,        *)
(* including the path where the first call of done throws.                 *)
C1_ExactlyOneEnvelope ==
    ScriptFinished => Len(doneCalls) = 1 /\ Len(Received) = 1

(* C2: the session is never partially mutated: in every reachable state    *)
(* the three components are all unset or all built from one schema string. *)
C2_SessionAllOrNothing ==
    \/ Current = SessionUnset
    \/ /\ COMPOSED_SCHEMA # UNSET
       /\ SCHEMA = COMPOSED_SCHEMA
       /\ PLANNER = COMPOSED_SCHEMA

(* C3: a Create of a malformed schema delivers Err with at least one error *)
(* and leaves no usable session: a Plan issued while the most recent       *)
(* Create is a failed one never delivers Ok.                               *)
C3_NoPlanAfterFailedCreate ==
    /\ (kind = "create" /\ Len(doneCalls) >= 1 /\ Malformed(schemaString))
           => WellFormedErr(doneCalls[1])
    /\ (kind = "plan" /\ Len(doneCalls) >= 1 /\ lastCreate # NoCreate /\ ~lastCreate.ok)
           => ~IsOk(doneCalls[1])

(* C4: no stage failure reaches the host uncaught: when compile, derive   *)
(* or planner construction fails in Create, or parse, validate (on an      *)
(* unset schema), resolve or plan throws in Plan, the first envelope       *)
(* handed to done is a well-formed Err, nothing but a failure of done      *)
(* itself ever leaves the script, and with a callback that returns that    *)
(* Err is the one envelope delivered and nothing leaves the script.        *)
StageFailed ==
    \/ kind = "create" /\ Malformed(schemaString)
    \/ kind = "plan" /\ Plan2StageThrows(before, queryString, operationName)

C4_StageFailureDeliveredAsErr ==
    (ScriptFinished /\ StageFailed) =>
        /\ Len(doneCalls) >= 1
        /\ WellFormedErr(doneCalls[1])
        /\ propagated \in {NoExc, DoneFailure}
        /\ ~DoneThrew => /\ propagated = NoExc
                         /\ Len(doneCalls) = 1
                         /\ Received = doneCalls

C4_Witness ==
    /\ kind = "plan"
    /\ pc = "finished"
    /\ queryString = "Qhard"
    /\ PLANNER = "S2"
    /\ CalledAny({"buildQueryPlan"})
    /\ ~DoneThrew
    /\ doneCalls = << ErrEnvelope(<< Failure("PlanningError", "buildQueryPlan") >>) >>

(* C5: every envelope handed to done by either script has exactly one of  *)
(* its Ok and Err arms populated, and an Err arm is never an empty list.   *)
C5_EnvelopeWellFormed ==
    \A i \in 1..Len(doneCalls) : WellFormed(doneCalls[i])

C5_Witness ==
    /\ kind = "plan"
    /\ pc = "finished"
    /\ Len(doneCalls) = 2
    /\ IsOk(doneCalls[1])
    /\ doneCalls[1].Ok.t = "plan"
    /\ ErrPopulated(doneCalls[2])

(* C6: when validation finds at least one violation, Plan returns Err with *)
(* exactly the validation errors, and neither operation resolution nor the *)
(* planner is called in that invocation; in the session form and in the    *)
(* one-shot form.                                                          *)
AfterValidation == {"operationFromDocument", "QueryPlanner", "buildQueryPlan"}

OneShotValidationFails(s, q) ==
    /\ SchemaFault(s) \notin {"buildSchema", "toAPISchema", "toGraphQLJSSchema"}
    /\ ~ParseThrows(q)
    /\ ValidationErrors(s, q) # << >>

C6_ValidationErrorsOnly ==
    /\ (kind = "plan" /\ pc # "plan_try" /\ Plan2ValidationFails(before, queryString)) =>
           /\ returned = ErrorsResult(ValidationErrors(before.SCHEMA, queryString))
           /\ pending = ErrEnvelope(ValidationErrors(before.SCHEMA, queryString))
           /\ Len(doneCalls) >= 1 => doneCalls[1] = pending
           /\ ~CalledAny(AfterValidation)
    /\ (kind = "oneshot" /\ pc = "finished"
            /\ OneShotValidationFails(schemaString, queryString)) =>
           /\ returned = ErrorsResult(ValidationErrors(schemaString, queryString))
           /\ ~CalledAny(AfterValidation)

C6_Witness ==
    /\ kind = "plan"
    /\ pc = "finished"
    /\ queryString = "Qinvalid"
    /\ operationName = "Z"
    /\ SCHEMA = "S1"
    /\ Len(doneCalls[1].Err) = 2
    /\ calls[Len(calls)].fn = "validate"

(* C7 as stated: after Create(S), whatever its outcome, Plan(q, name)      *)
(* returns and delivers what the one-shot plan(S, q, name) returns.        *)
C7_FormsAgree ==
    (kind = "plan" /\ pc = "finished" /\ lastCreate # NoCreate) =>
        /\ returned = plan(lastCreate.schema, queryString, operationName).result
        /\ doneCalls[1] =
               PlanScriptEnvelope(
                   plan(lastCreate.schema, queryString, operationName).result)

(* C7 amended: after a Create(S) that succeeded, Plan(q, name) returns and *)
(* delivers what the one-shot plan(S, q, name) returns, for every q and    *)
(* name, also when more than one stage of planning would fail.             *)
C7_FormsAgreeAfterOkCreate ==
    (kind = "plan" /\ pc = "finished" /\ lastCreate.ok) =>
        /\ returned = plan(lastCreate.schema, queryString, operationName).result
        /\ doneCalls[1] =
               PlanScriptEnvelope(
                   plan(lastCreate.schema, queryString, operationName).result)

C7_Witness ==
    /\ kind = "plan"
    /\ pc = "finished"
    /\ lastCreate = [schema |-> "S2", ok |-> TRUE]
    /\ queryString = "QonlyS1"
    /\ operationName = "Z"
    /\ returned = plan("S2", "QonlyS1", "Z").result
    /\ returned.hasErrors
    /\ returned.errors[1].kind = "ValidationError1"

(* C8: the session form of Plan never assigns to the session: throughout   *)
(* and after a Plan invocation, whatever its outcome, COMPOSED_SCHEMA,     *)
(* SCHEMA and PLANNER are what they were when the invocation started.      *)
C8_PlanLeavesSession ==
    kind = "plan" => Current = before

C8_Witness ==
    /\ kind = "plan"
    /\ pc = "finished"
    /\ Current = before
    /\ COMPOSED_SCHEMA = "Snoplanner"
    /\ PLANNER = "S1"
    /\ Len(calls) = 4

(* C9: Create delivers Ok(null) when compilation, derivation and planner   *)
(* construction all succeed, and Err holding exactly the thrown failure,   *)
(* unmodified, when one of them fails.                                     *)
C9_CreateEnvelope ==
    /\ (ScriptFinished /\ kind = "create") => Len(doneCalls) >= 1
    /\ (kind = "create" /\ Len(doneCalls) >= 1) =>
           IF Malformed(schemaString)
           THEN doneCalls = << ErrEnvelope(<< create(before, schemaString).thrown >>) >>
           ELSE /\ doneCalls[1] = OkEnvelope(Null)
                /\ ~DoneThrew => doneCalls = << OkEnvelope(Null) >>

C9_Witness ==
    /\ kind = "create"
    /\ pc = "finished"
    /\ schemaString = "Snoplanner"
    /\ doneCalls = << ErrEnvelope(<< Failure("PlannerError", "Snoplanner") >>) >>

(* C10: while the most recent Create is a successful Create(S2), every     *)
(* Plan validates, resolves and plans against the session built from S2:   *)
(* no component of the session of an earlier Create(S1) is used.           *)
SessionCalls == {"validate", "operationFromDocument", "buildQueryPlan"}

C10_PlanUsesLatestSession ==
    (kind = "plan" /\ lastCreate.ok) =>
        /\ \A i \in 1..Len(calls) :
               calls[i].fn \in SessionCalls => calls[i].on = lastCreate.schema
        /\ (pc # "plan_try" /\ ~returned.hasErrors) =>
               /\ returned.data.planner = lastCreate.schema
               /\ returned.data.schema = lastCreate.schema

C10_Witness ==
    /\ kind = "plan"
    /\ pc = "finished"
    /\ okCreates = << "S1", "S2" >>
    /\ lastCreate = [schema |-> "S2", ok |-> TRUE]
    /\ Len(calls) = 4
    /\ IsOk(doneCalls[1])
    /\ doneCalls[1].Ok.planner = "S2"

(* C11: Plan is idempotent: when the host repeats Plan(q, name) any        *)
(* number of times with no Create in between, every repetition hands done  *)
(* the envelope the invocation before it handed over, the same Ok plan or  *)
(* the same Err list.                                                      *)
C11_RepeatedPlanSameEnvelope ==
    (kind = "plan" /\ previous # NoEnvelope /\ pc # "plan_try") =>
        /\ pending = previous
        /\ Len(doneCalls) >= 1 => doneCalls[1] = previous

C11_Witness ==
    /\ kind = "plan"
    /\ pc = "finished"
    /\ queryString = "QAB"
    /\ operationName = "B"
    /\ IsOk(previous)
    /\ previous.Ok.op = "B"
    /\ doneCalls[1] = previous

(* C12: after a successful Create(S), Plan(q, name) for a query that       *)
(* parses, validates, resolves and plans against S hands done Ok with a    *)
(* plan, never null or undefined, built by the planner of S for q.         *)
PlansOn(s, q, name) ==
    /\ ~Malformed(s)
    /\ ~ParseThrows(q)
    /\ ValidationErrors(s, q) = << >>
    /\ ~ResolveThrows(s, q, name)
    /\ ~BuildQueryPlanThrows(s, s, q, FALSE)

C12_ValidQueryPlans ==
    (kind = "plan" /\ pc \in {"catch", "finished"} /\ lastCreate.ok
         /\ PlansOn(lastCreate.schema, queryString, operationName)) =>
        /\ Len(doneCalls) >= 1
        /\ IsOk(doneCalls[1])
        /\ doneCalls[1].Ok # Null
        /\ doneCalls[1].Ok # Undefined
        /\ doneCalls[1].Ok =
               QueryPlanValue(lastCreate.schema, lastCreate.schema, queryString,
                              ResolvedOperation(queryString, operationName))

C12_Witness ==
    /\ kind = "plan"
    /\ pc = "finished"
    /\ lastCreate = [schema |-> "S1", ok |-> TRUE]
    /\ queryString = "QonlyS1"
    /\ operationName = NoName
    /\ doneCalls = << OkEnvelope(QueryPlanValue("S1", "S1", "QonlyS1", NoName)) >>

(* C13: the one-shot plan establishes no session: throughout and after    *)
(* the call, whatever it returns, COMPOSED_SCHEMA, SCHEMA and PLANNER are  *)
(* what they were before it, so a later Plan finds the session it would    *)
(* have found without the call.                                            *)
C13_OneShotLeavesSession ==
    kind = "oneshot" => Current = before

C13_Witness ==
    /\ kind = "oneshot"
    /\ pc = "finished"
    /\ schemaString = "S2"
    /\ ~returned.hasErrors
    /\ returned.data.planner = "S2"
    /\ Current = Session("S1", "S1", "S1")
    /\ before = Current

(* C14: on the session of a successful Create, for a document that passes *)
(* validation and defines the two operations A and B: Plan without an      *)
(* operation name hands done Err with the ambiguity error of the           *)
(* resolution, the planner not having been called; Plan with operation     *)
(* name A hands done Ok with the plan built for operation A.               *)
TwoOperations(q) == OperationsOf(q) = {"A", "B"}

C14_OperationNameResolution ==
    (kind = "plan" /\ pc \in {"catch", "finished"} /\ lastCreate.ok
         /\ TwoOperations(queryString)
         /\ ValidationErrors(lastCreate.schema, queryString) = << >>) =>
        /\ operationName = NoName =>
               /\ doneCalls[1] =
                      ErrEnvelope(<< Failure("AmbiguousOperation", queryString) >>)
               /\ calls[Len(calls)].fn = "operationFromDocument"
               /\ ~CalledAny({"buildQueryPlan"})
        /\ operationName = "A" =>
               /\ IsOk(doneCalls[1])
               /\ doneCalls[1].Ok.op = "A"
               /\ doneCalls[1].Ok.query = queryString

C14_Witness ==
    /\ kind = "plan"
    /\ pc = "finished"
    /\ lastCreate.ok
    /\ queryString = "QAB"
    /\ operationName = "A"
    /\ IsOk(doneCalls[1])
    /\ doneCalls[1].Ok.op = "A"

(* C15: in the session form and in the one-shot form the stages parse,    *)
(* validate, resolve, plan run in that order, each only when every earlier *)
(* one succeeded; the error returned is that of the last stage run, the    *)
(* earliest to fail; a list of other than one error comes from validation  *)
(* alone and is its list of violations.                                    *)
StageOrder == << "parse", "validate", "operationFromDocument", "buildQueryPlan" >>

IsStage(c) == \E i \in 1..Len(StageOrder) : StageOrder[i] = c.fn

StagesRun == SelectSeq(calls, IsStage)

\* the schema the stages of this invocation validate and resolve against
ValidatedOn == IF kind = "oneshot" THEN schemaString ELSE before.SCHEMA
ResolvedOn == IF kind = "oneshot" THEN schemaString ELSE before.COMPOSED_SCHEMA

ErrorOfStage(fn, errs) ==
    CASE fn = "parse" -> errs = << Failure("SyntaxError", queryString) >>
      [] fn = "validate" ->
             IF ValidateThrows(ValidatedOn)
             THEN errs = << Failure("TypeError", "validate") >>
             ELSE errs = ValidationErrors(ValidatedOn, queryString) /\ Len(errs) >= 1
      [] fn = "operationFromDocument" ->
             errs = << Failure(ResolveFailureKind(ResolvedOn, queryString,
                                                  operationName), queryString) >>
      [] fn = "buildQueryPlan" ->
             /\ Len(errs) = 1
             /\ errs[1].kind \in {"PlanningError", "TypeError"}
             /\ errs[1].about = "buildQueryPlan"
      [] OTHER -> Len(errs) = 1 /\ errs[1].about = schemaString

C15_StagesInOrder ==
    (kind \in {"plan", "oneshot"} /\ pc \notin {"plan_try", "oneshot_call"}) =>
        /\ kind = "plan" => Len(StagesRun) >= 1
        /\ \A i \in 1..Len(StagesRun) : StagesRun[i].fn = StageOrder[i]
        /\ CalledAny({"validate"}) => ~ParseThrows(queryString)
        /\ CalledAny({"operationFromDocument"}) =>
               /\ ~ValidateThrows(ValidatedOn)
               /\ ValidationErrors(ValidatedOn, queryString) = << >>
        /\ CalledAny({"buildQueryPlan"}) =>
               ~ResolveThrows(ResolvedOn, queryString, operationName)
        /\ returned.hasErrors =>
               /\ ErrorOfStage(calls[Len(calls)].fn, returned.errors)
               /\ Len(returned.errors) # 1 => calls[Len(calls)].fn = "validate"
               /\ kind = "plan" => pending = ErrEnvelope(returned.errors)
        /\ ~returned.hasErrors => calls[Len(calls)].fn = "buildQueryPlan"

C15_Witness ==
    /\ kind = "oneshot"
    /\ pc = "finished"
    /\ schemaString = "S2"
    /\ queryString = "QAB"
    /\ operationName = "Z"
    /\ Len(StagesRun) = 3
    /\ returned.errors = << Failure("UnknownOperation", "QAB") >>

(* C16: planner_plan hands plan2's result over untransformed: when plan2  *)
(* returned a non-empty errors list, the Err arm handed to done is that    *)
(* list, the same elements in the same order; otherwise the Ok arm handed  *)
(* to done is plan2's data value.                                          *)
C16_ResultPassedThrough ==
    (kind = "plan" /\ Len(doneCalls) >= 1) =>
        IF returned.hasErrors /\ Len(returned.errors) >= 1
        THEN /\ doneCalls[1].arms = {"Err"}
             /\ Len(doneCalls[1].Err) = Len(returned.errors)
             /\ \A i \in 1..Len(returned.errors) :
                    doneCalls[1].Err[i] = returned.errors[i]
        ELSE /\ doneCalls[1].arms = {"Ok"}
             /\ doneCalls[1].Ok = returned.data

C16_Witness ==
    /\ kind = "plan"
    /\ pc = "finished"
    /\ queryString = "Qinvalid"
    /\ Len(returned.errors) = 2
    /\ doneCalls[1].Err[1].kind = "ValidationError1"
    /\ doneCalls[1].Err[2].kind = "ValidationError2"

(* C17: sessions are per runtime instance. With two instances whose      *)
(* invocations interleave, an invocation of the second instance (Create,   *)
(* successful or failed, or Plan) leaves the first instance's              *)
(* COMPOSED_SCHEMA, SCHEMA and PLANNER unchanged, a step of the first      *)
(* instance leaves the second instance's session unchanged, and the result *)
(* of a Plan on either instance is the one plan2 gives on that instance's  *)
(* own session.                                                            *)
PeerStep == pc' = pc

PlanOnOwnSession ==
    /\ (kind = "plan" /\ pc # "plan_try") =>
           returned = plan2(Current, queryString, operationName,
                            foreignPlanThrows).result
    /\ peer.last.kind = "plan" =>
           peer.last.returned = plan2(peer.sess, peer.last.queryString,
                                      peer.last.operationName,
                                      foreignPlanThrows).result

C17_SessionsPerInstance ==
    /\ [] PlanOnOwnSession
    /\ [][ /\ PeerStep => Current' = Current
           /\ ~PeerStep => peer'.sess = peer.sess ]_vars

\* both instances have planned the same query on different sessions, the
\* second one's session left half assigned by a failed Create
C17_Witness ==
    /\ kind = "plan"
    /\ pc = "finished"
    /\ queryString = "QonlyS1"
    /\ Current = Session("S1", "S1", "S1")
    /\ ~returned.hasErrors
    /\ peer.sess = Session("Snoplanner", "Snoplanner", "S2")
    /\ peer.last.kind = "plan"
    /\ peer.last.queryString = "QonlyS1"
    /\ peer.last.returned.hasErrors

(* C18: a Plan issued before any successful Create never delivers Ok: it  *)
(* hands done exactly one envelope, an Err with a single error, the parse  *)
(* error when the query does not parse and otherwise the failure raised by *)
(* using the unset session.                                                *)
C18_PlanBeforeCreate ==
    (kind = "plan" /\ pc = "finished" /\ okCreates = << >>) =>
        /\ Len(doneCalls) = 1
        /\ WellFormedErr(doneCalls[1])
        /\ Len(doneCalls[1].Err) = 1
        /\ doneCalls[1].Err[1].kind =
               IF ParseThrows(queryString) THEN "SyntaxError" ELSE "TypeError"

(* C19: a Create whose first step, buildSchema, fails leaves               *)
(* COMPOSED_SCHEMA, SCHEMA and PLANNER exactly as they were before the     *)
(* invocation, at every point of the script and after it.                  *)
C19_FailedCompileLeavesSession ==
    (kind = "create" /\ SchemaFault(schemaString) = "buildSchema") =>
        /\ Current = before
        /\ pc # "create_try" =>
               /\ calls = << Call("buildSchema", schemaString) >>
               /\ ~lastCreate.ok

\* the compilation failed on a runtime that held a complete session, and
\* the session is still there once the failure has been delivered
C19_Witness ==
    /\ kind = "create"
    /\ pc = "finished"
    /\ schemaString = "Snocompile"
    /\ before = Session("S1", "S1", "S1")
    /\ Current = before
    /\ Len(doneCalls) >= 1
    /\ WellFormedErr(doneCalls[1])

====
